---- MODULE Spec2Model ----
(***************************************************************************)
(* Model of the batch URL pipeline of the scraper:                         *)
(*   WebScraper.scrape_urls / bounded_scrape / scrape_url / _fetch_page    *)
(*   (web_scraper.py), ExceptionHandler / is_critical_error                *)
(*   (exceptions.py), ScrapingManager.process_url_list /                   *)
(*   save_final_report (main.py), and the limits of config.py.             *)
(* Collaborators that the sources call but do not define are modelled      *)
(* from the specification and are marked as such where they are defined.   *)
(***************************************************************************)
EXTENDS Integers, Sequences, FiniteSets, TLC

\* ------------------------------------------------------------------ bounds
\* longest URL list handed to the batch routine
MaxUrls == 3
\* ------------------------------------------------- configuration (config.py)
\* PERFORMANCE_SETTINGS['max_concurrent_downloads']
max_concurrent_downloads == 5

\* ----------------------------------------------------------------- inputs
\* "a", "b": well-formed URLs of allowed domains; "not_a_url": malformed;
\* "blocked": well-formed URL of a domain that is not allowed.
URLS == {"a", "b", "not_a_url", "blocked"}

\* what the HTTP session does for one GET (web_scraper.py _fetch_page): the
\* session is closed, the transport raises aiohttp.ClientError, the request
\* times out (asyncio.TimeoutError), or a response arrives with a status and
\* a body
NoResponse(outcome) == [outcome |-> outcome, status |-> 0, body |-> ""]

HttpResponse(status, body) == [outcome |-> "response", status |-> status, body |-> body]

SessionClosed == NoResponse("session_closed")

ClientErrorRaised == NoResponse("client_error")

TimeoutRaised == NoResponse("timeout")

PageResponse == HttpResponse(200, "text")

\* the outcomes met by the items of a batch
FetchOutcomes ==
    {PageResponse, HttpResponse(200, ""), HttpResponse(204, ""), HttpResponse(404, "text"),
     ClientErrorRaised, SessionClosed}

\* ---------------------------------------------------------------- results
NoResult == [kind |-> "pending", url |-> "-", status |-> "-", error |-> "-"]
\* scrape_url falls off the end of the function: Python returns None
NoneValue == [kind |-> "None", url |-> "-", status |-> "-", error |-> "-"]
\* the dict returned at web_scraper.py 139-145
SavedRecord(u, success) ==
    [kind |-> "dict", url |-> u,
     status |-> IF success THEN "success" ELSE "failed", error |-> "-"]
\* the dict returned at web_scraper.py 148-153
ErrorRecord(u, e) == [kind |-> "dict", url |-> u, status |-> "failed", error |-> e]
\* an exception that left scrape_url and is held by the task
Raised(e) == [kind |-> "exception", url |-> "-", status |-> "-", error |-> e]
\* the dict built at web_scraper.py 182-186 (it has no 'url' key)
TaskFailedRecord(e) == [kind |-> "dict", url |-> "-", status |-> "failed", error |-> e]

VARIABLES
    phase,             \* position of the top-level run
    urls,              \* the list handed to scrape_urls
    concurrent_limit,  \* scrape_urls' concurrent_limit after defaulting
    pc,                \* position of each bounded_scrape task
    semaphore,         \* asyncio.Semaphore: [value, waiters]
    task_result,       \* what each task ended with (NoResult while running)
    results,           \* the list scrape_urls returns
    manager_results,   \* ScrapingManager.results
    failed_items,      \* ScrapingManager.failed_items
    summary,           \* the summary save_final_report wrote
    resource_guard,    \* one admission query: the sample and its answer
    retry_policy,      \* one RetryPolicy.decide call: arguments and decision
    completed_order,   \* history: the tasks in the order they ended, where logged
    fetch_call,        \* one _fetch_page call: the response and what the call gave
    scheduler,         \* the Scheduler of the specification (4.4), with retries
    save_call,         \* one ContentProcessor.save_results call
    keyword_run,       \* one ContentProcessor.process_keywords run and its stats
    sheet              \* the spreadsheet ContentScraper.save_content_to_excel writes

vars == <<phase, urls, concurrent_limit, pc, semaphore, task_result, results,
          manager_results, failed_items, summary, resource_guard, retry_policy,
          completed_order, fetch_call, scheduler, save_call, keyword_run, sheet>>

batch_vars == <<phase, urls, concurrent_limit, pc, semaphore, task_result, results,
                manager_results, failed_items, summary>>

\* the state of the routines that are modelled on their own
side_vars == <<fetch_call, scheduler, save_call, keyword_run, sheet>>

Items == 1..Len(urls)

\* the tasks scrape_urls created, while it runs
Tasks == DOMAIN pc

\* ------------------------------------------------ exceptions (exceptions.py)
\* NetworkError / ResourceError / SecurityError are ScraperExceptions and carry
\* their error_code; anything else is not a ScraperException.
ScraperExceptionTypes == {"NetworkError", "ResourceError", "SecurityError", "WindowsError"}

NoException == [type |-> "-", error_code |-> "-", windows_error_code |-> 0]
NetworkErrorExc ==
    [type |-> "NetworkError", error_code |-> "NETWORK_ERROR", windows_error_code |-> 0]
ResourceErrorExc ==
    [type |-> "ResourceError", error_code |-> "RESOURCE_ERROR", windows_error_code |-> 0]
\* web_scraper.py imports ScraperException, WindowsError, NetworkError,
\* ChromeDriverError, ResourceError and ExceptionHandler; the name SecurityError
\* at line 111 is unbound in the module, so evaluating it raises NameError.
NameErrorExc == [type |-> "NameError", error_code |-> "-", windows_error_code |-> 0]

\* handle_exception: the error_dict of an exception
handle_exception(exc) ==
    IF exc.type \in ScraperExceptionTypes
    THEN [error_code |-> exc.error_code, windows_error_code |-> exc.windows_error_code]
    ELSE [error_code |-> "UNHANDLED_ERROR", windows_error_code |-> 0]

critical_codes == {"SECURITY_ERROR", "RESOURCE_ERROR", "WINDOWS_ERROR_5", "WINDOWS_ERROR_32"}

is_critical_error(error_dict) ==
    \/ error_dict.error_code \in critical_codes
    \/ error_dict.windows_error_code \in {5, 32}

\* ExceptionHandler.__exit__ for a raised exception: TRUE suppresses it,
\* FALSE lets it propagate
ExceptionHandler_exit(exc) == ~is_critical_error(handle_exception(exc))

\* ------------------------------------------- collaborators missing from utils
\* NetworkUtils.is_valid_url, SecurityUtils.is_safe_domain and
\* SystemUtils.check_resources are imported by web_scraper.py (line 25) but no
\* source file defines them; they follow the specification (4.1, 4.3).
is_valid_url(u) == u # "not_a_url"

is_safe_domain(u) == u # "blocked"

\* --------------------------------------------------------- ResourceGuard
\* RESOURCE_LIMITS of config.py
max_memory_percent == 75
max_cpu_percent == 85
max_connections == 100

\* samples are taken within this distance of each limit
SampleSpread == 2

Around(limit) == (limit - SampleSpread)..(limit + SampleSpread)

Snapshots ==
    [memory_percent : Around(max_memory_percent),
     cpu_percent : Around(max_cpu_percent),
     active_connections : Around(max_connections)]

\* SystemUtils.check_resources(): one boolean per resource, TRUE when the
\* resource is within its limit (specification 4.1: a resource at or above
\* its limit refuses)
check_resources(snapshot) ==
    [memory |-> snapshot.memory_percent < max_memory_percent,
     cpu |-> snapshot.cpu_percent < max_cpu_percent,
     connections |-> snapshot.active_connections < max_connections]

\* every answer check_resources can give
ResourceAnswers == {check_resources(snapshot) : snapshot \in Snapshots}

\* check_resources() when taking the sample itself fails (specification 4.1:
\* the check fails open, every resource is reported within its limit)
check_resources_failed == [memory |-> TRUE, cpu |-> TRUE, connections |-> TRUE]

\* (variant of all_resources: any() in place of all())
any_resources(resources) ==
    resources.memory \/ resources.cpu \/ resources.connections

\* web_scraper.py 119: all(resources.values())
all_resources(resources) ==
    resources.memory /\ resources.cpu /\ resources.connections

\* ------------------------------------------------- scrape_url (web_scraper.py)
\* (variant of scrape_url_checks: the `not` of line 119 is missing)
scrape_url_checks_inverted(u, resources) ==
    IF ~is_valid_url(u) THEN NetworkErrorExc
    ELSE IF ~is_safe_domain(u) THEN NameErrorExc
    ELSE IF all_resources(resources) THEN ResourceErrorExc
    ELSE NoException

\* lines 104-125: the exception raised before the page is fetched, if any
scrape_url_checks(u, resources) ==
    IF ~is_valid_url(u) THEN NetworkErrorExc
    ELSE IF ~is_safe_domain(u) THEN NameErrorExc
    ELSE IF ~all_resources(resources) THEN ResourceErrorExc
    ELSE NoException

\* how the call ends when exc is raised inside `with ExceptionHandler(...)`:
\* suppressed, the function body is left and the call returns None;
\* otherwise the exception leaves the call
raise_in_handler(exc) ==
    IF ExceptionHandler_exit(exc) THEN NoneValue ELSE Raised(exc.error_code)

\* _fetch_page (lines 192-210): the text, None, or the error it raises.
\* With the session closed line 195 skips the request and line 210 returns
\* None. A ClientError is turned into a NetworkError at 205; a TimeoutError is
\* not a ClientError and leaves the function as it is. A response with status
\* 200 gives its text (198); any other status raises NetworkError at 199,
\* which is not a ClientError and passes the except clause unchanged.
\* `raised` is the class of the error.
fetch_page(response) ==
    IF response.outcome = "session_closed" THEN [raised |-> "-", content |-> "None"]
    ELSE IF response.outcome = "client_error" THEN [raised |-> "NetworkError", content |-> "-"]
    ELSE IF response.outcome = "timeout" THEN [raised |-> "TimeoutError", content |-> "-"]
    ELSE IF response.status = 200 THEN [raised |-> "-", content |-> response.body]
    ELSE [raised |-> "NetworkError", content |-> "-"]

\* Python truth value of the fetched content
truthy(content) == content \notin {"", "None"}

\* lines 135-153: what the call returns once _fetch_page has finished
scrape_url_fetched(u, outcome, save_ok) ==
    LET page == fetch_page(outcome) IN
    IF page.raised # "-" THEN ErrorRecord(u, page.raised)
    ELSE IF truthy(page.content) THEN SavedRecord(u, save_ok)
    ELSE NoneValue

\* ------------------------------------------------------ asyncio.Semaphore
\* (variant of locked: the semaphore never reports itself locked)
locked_never(sem) == FALSE

locked(sem) == sem.value = 0 \/ sem.waiters # <<>>

acquire_now(sem) == [sem EXCEPT !.value = @ - 1]

\* (variant of enqueue: the waiting task is not put on the wait queue)
enqueue_lost(sem, i) == sem

enqueue(sem, i) == [sem EXCEPT !.waiters = Append(@, i)]

\* (variant of wake_up_next: the waiter is not taken off the queue)
wake_up_next_keep(sem) == [value |-> sem.value - 1, waiters |-> sem.waiters]

\* the first waiter resumes and takes the permit
wake_up_next(sem) == [value |-> sem.value - 1, waiters |-> Tail(sem.waiters)]

\* (variant of release: leaving the block does not give the permit back)
release_leak(sem) == sem

\* Semaphore.release, called when `async with semaphore` is left (line 168)
release(sem) == [sem EXCEPT !.value = @ + 1]

\* ------------------------------------------------------------ scrape_urls
\* the concurrent_limit argument: omitted (None), or a limit that a list of
\* MaxUrls items can reach
LimitArgs ==
    {[given |-> FALSE, value |-> 0], [given |-> TRUE, value |-> 1],
     [given |-> TRUE, value |-> 2]}

UrlLists == UNION {[1..n -> URLS] : n \in 0..MaxUrls}

\* lines 158-173: default the limit, create the semaphore and one task per URL
ScrapeUrlsCall(us, arg) ==
    /\ phase = "start"
    /\ urls' = us
    /\ concurrent_limit' = IF arg.given THEN arg.value ELSE max_concurrent_downloads
    /\ semaphore' = [value |-> concurrent_limit', waiters |-> <<>>]
    /\ pc' = [i \in 1..Len(us) |-> "pending"]
    /\ task_result' = [i \in 1..Len(us) |-> NoResult]
    /\ phase' = "gather"
    /\ UNCHANGED <<results, manager_results, failed_items, summary,
                   resource_guard, retry_policy, completed_order, side_vars>>

\* (variant of startable: the tasks take their first step in any order)
startable_any(i) == pc[i] = "pending"

\* the task's first step runs `async with semaphore` (line 168); tasks start
\* in the order create_task scheduled them
startable(i) == pc[i] = "pending" /\ \A j \in 1..(i - 1) : pc[j] # "pending"

Acquire(i) ==
    /\ phase = "gather"
    /\ startable(i)
    /\ IF locked(semaphore)
       THEN /\ semaphore' = enqueue(semaphore, i)
            /\ pc' = [pc EXCEPT ![i] = "waiting"]
       ELSE /\ semaphore' = acquire_now(semaphore)
            /\ pc' = [pc EXCEPT ![i] = "acquired"]
    /\ UNCHANGED <<phase, urls, concurrent_limit, task_result, results,
                   manager_results, failed_items, summary, resource_guard, retry_policy, completed_order, side_vars>>

\* create_task queued every task's first step before gather suspended the
\* caller; the event loop runs those steps, in order, before it runs a wake-up
\* or delivers the completion of any I/O
all_started == \A j \in Tasks : pc[j] # "pending"

WakeUp(i) ==
    /\ phase = "gather"
    /\ all_started
    /\ pc[i] = "waiting"
    /\ semaphore.waiters # <<>>
    /\ Head(semaphore.waiters) = i
    /\ semaphore.value > 0
    /\ semaphore' = wake_up_next(semaphore)
    /\ pc' = [pc EXCEPT ![i] = "acquired"]
    /\ UNCHANGED <<phase, urls, concurrent_limit, task_result, results,
                   manager_results, failed_items, summary, resource_guard, retry_policy, completed_order, side_vars>>

\* (variant of finish: an item that did not succeed is put back to be run again)
finish_requeue(i, r) ==
    /\ task_result' = [task_result EXCEPT ![i] = IF r.status = "success" THEN r ELSE @]
    /\ pc' = [pc EXCEPT ![i] = IF r.status = "success" THEN "done" ELSE "pending"]
    /\ semaphore' = [semaphore EXCEPT !.value = @ + 1]

\* the task ends with result r: leaving `async with` releases the permit
finish(i, r) ==
    /\ task_result' = [task_result EXCEPT ![i] = r]
    /\ pc' = [pc EXCEPT ![i] = "done"]
    /\ semaphore' = release(semaphore)

\* scrape_url up to the await of _fetch_page (lines 104-136), check_resources
\* giving one of answers
ScrapeUrlChecksWith(i, answers) ==
    /\ phase = "gather"
    /\ pc[i] = "acquired"
    /\ \E exc \in {scrape_url_checks(urls[i], resources) : resources \in answers} :
         IF exc = NoException
         THEN /\ pc' = [pc EXCEPT ![i] = "fetching"]
              /\ UNCHANGED <<task_result, semaphore>>
         ELSE finish(i, raise_in_handler(exc))
    /\ UNCHANGED <<phase, urls, concurrent_limit, results,
                   manager_results, failed_items, summary, resource_guard, retry_policy, side_vars>>

ScrapeUrlChecks(i) ==
    ScrapeUrlChecksWith(i, ResourceAnswers) /\ UNCHANGED completed_order

\* _fetch_page completes and scrape_url runs to its end (lines 136-153), the
\* GET ending as one of outcomes and _save_content returning one of saves
ScrapeUrlFetchedWith(i, outcomes, saves) ==
    /\ phase = "gather"
    /\ all_started
    /\ pc[i] = "fetching"
    /\ \E r \in {scrape_url_fetched(urls[i], outcome, save_ok) :
                        outcome \in outcomes, save_ok \in saves} :
         finish(i, r)
    /\ UNCHANGED <<phase, urls, concurrent_limit, results,
                   manager_results, failed_items, summary, resource_guard, retry_policy, side_vars>>

ScrapeUrlFetched(i) ==
    ScrapeUrlFetchedWith(i, FetchOutcomes, BOOLEAN) /\ UNCHANGED completed_order

\* (variant of process_results: each entry is put in front of the list)
process_results_reversed(completed) ==
    [i \in DOMAIN completed |->
        IF completed[Len(completed) + 1 - i].kind = "exception"
        THEN TaskFailedRecord(completed[Len(completed) + 1 - i].error)
        ELSE completed[Len(completed) + 1 - i]]

\* lines 179-188: one entry per task, in task order
process_results(completed) ==
    [i \in DOMAIN completed |->
        IF completed[i].kind = "exception"
        THEN TaskFailedRecord(completed[i].error)
        ELSE completed[i]]

\* the locals of scrape_urls before the call and after its return
NoSemaphore == [value |-> 0, waiters |-> <<>>]

\* lines 176-190: gather returns once every task is done; the routine builds
\* its result list and returns, which ends the life of its locals
GatherReturn ==
    /\ phase = "gather"
    /\ \A i \in Tasks : pc[i] = "done"
    /\ results' = process_results(task_result)
    /\ phase' = "returned"
    /\ pc' = <<>>
    /\ task_result' = <<>>
    /\ semaphore' = NoSemaphore
    /\ concurrent_limit' = 0
    /\ UNCHANGED <<urls, manager_results, failed_items, summary,
                   resource_guard, retry_policy, completed_order, side_vars>>

\* ------------------------------------------------ ScrapingManager (main.py)
\* process_url_list, lines 60-62
extend_results(mine, new) == IF new # <<>> THEN mine \o new ELSE mine

ProcessUrlListReturn ==
    /\ phase = "returned"
    /\ manager_results' = extend_results(manager_results, results)
    /\ phase' = "recorded"
    /\ UNCHANGED <<urls, concurrent_limit, pc, semaphore, task_result, results,
                   failed_items, summary, resource_guard, retry_policy, completed_order, side_vars>>

NoSummary == [written |-> FALSE, total_processed |-> 0, successful |-> 0,
              failed |-> 0, success_rate |-> 0]

\* save_final_report, lines 91-99; the division at line 98 by a zero total
\* raises ZeroDivisionError, caught at 110: no summary is written
make_summary(rs, fs) ==
    IF Len(rs) + Len(fs) = 0 THEN NoSummary
    ELSE [written |-> TRUE,
          total_processed |-> Len(rs) + Len(fs),
          successful |-> Len(rs),
          failed |-> Len(fs),
          success_rate |-> (Len(rs) * 100) \div (Len(rs) + Len(fs))]

SaveFinalReport ==
    /\ phase = "recorded"
    /\ summary' = make_summary(manager_results, failed_items)
    /\ phase' = "reported"
    /\ UNCHANGED <<urls, concurrent_limit, pc, semaphore, task_result, results,
                   manager_results, failed_items, resource_guard, retry_policy, completed_order, side_vars>>

\* main, lines 126-159: reading the input file raises (the file is missing, is
\* not JSON, or holds no array); the handler logs and returns, so line 162 is
\* not reached
LoadInputFails ==
    /\ phase = "start"
    /\ phase' = "load_failed"
    /\ UNCHANGED <<urls, concurrent_limit, pc, semaphore, task_result, results,
                   manager_results, failed_items, summary, resource_guard, retry_policy,
                   completed_order, side_vars>>

\* the phases of main before save_final_report has run
BeforeReport == {"start", "gather", "returned", "recorded"}

\* lines 177-183: the user interrupts the run. asyncio.run cancels main and its
\* tasks; KeyboardInterrupt / CancelledError are not Exceptions, so neither
\* handler of main (157, 166) takes them, only `finally` runs, and the
\* interrupt is logged at 180-181. The locals of the batch are gone.
KeyboardInterrupt ==
    /\ phase \in BeforeReport
    /\ phase' = "interrupted"
    /\ pc' = <<>>
    /\ task_result' = <<>>
    /\ semaphore' = NoSemaphore
    /\ concurrent_limit' = 0
    /\ results' = <<>>
    /\ UNCHANGED <<urls, manager_results, failed_items, summary,
                   resource_guard, retry_policy, completed_order, side_vars>>

\* ------------------------------------------- one admission query on its own
NoSnapshot == [memory_percent |-> 0, cpu_percent |-> 0, active_connections |-> 0]

NoAnswer == [memory |-> FALSE, cpu |-> FALSE, connections |-> FALSE]

GuardIdle ==
    resource_guard = [stage |-> "idle", snapshot |-> NoSnapshot, resources |-> NoAnswer,
                      pressure |-> FALSE, raised |-> FALSE]

\* MemoryManager._monitor_memory (utils.py 113-115): memory pressure is
\* handled when the sampled percentage has reached the threshold, which is
\* max_memory_percent (utils.py 95)
memory_pressure(percent) == percent >= max_memory_percent

\* ResourceGuard.sample
InitGuard ==
    \E snapshot \in Snapshots :
        resource_guard = [stage |-> "sampled", snapshot |-> snapshot, resources |-> NoAnswer,
                          pressure |-> memory_pressure(snapshot.memory_percent),
                          raised |-> FALSE]

\* web_scraper.py 118
CheckResources ==
    /\ resource_guard.stage = "sampled"
    /\ resource_guard' = [resource_guard EXCEPT
                             !.stage = "checked",
                             !.resources = check_resources(resource_guard.snapshot)]
    /\ UNCHANGED <<batch_vars, retry_policy, completed_order, side_vars>>

\* web_scraper.py 119-125: ResourceError is raised unless every entry is true
RaiseUnlessAdmitted ==
    /\ resource_guard.stage = "checked"
    /\ resource_guard' = [resource_guard EXCEPT
                             !.stage = "answered",
                             !.raised = ~all_resources(resource_guard.resources)]
    /\ UNCHANGED <<batch_vars, retry_policy, completed_order, side_vars>>

\* ------------------------------------------------------------ RetryPolicy
\* (variants of the two options: other configured values)
max_retries_other == 3 + 1
retry_delay_other == 5 + 1

\* RESOURCE_LIMITS['max_retries'] and ['retry_delay'] of config.py
max_retries == 3
retry_delay == 5
\* the sampling interval of the memory monitor (utils.py 118), in seconds
sampling_interval == 1

\* largest attempt count and largest configured max_retries tried
MaxAttempt == 4
MaxRetriesOption == 4

FailureKind == {"Network", "Timeout", "ResourceExceeded", "Validation", "Unknown"}

GiveUp == [action |-> "GiveUp", delay |-> 0]

Retry(delay) == [action |-> "Retry", delay |-> delay]

NoDecision == [action |-> "-", delay |-> 0]

\* (variant of decide: a Validation failure is retried like any other)
decide_retry_validation(attempt, kind, limit) ==
    IF attempt >= limit THEN [action |-> "GiveUp", delay |-> 0]
    ELSE [action |-> "Retry", delay |-> retry_delay * attempt]

\* RetryPolicy.decide (specification 4.2); limit is the configured max_retries.
\* No source file implements it: config.py only declares its two options.
decide(attempt, kind, limit) ==
    IF attempt >= limit THEN GiveUp
    ELSE IF kind = "Validation" THEN GiveUp
    ELSE IF kind = "ResourceExceeded" THEN Retry(sampling_interval)
    ELSE Retry(retry_delay * attempt)

RetryIdle ==
    retry_policy = [stage |-> "idle", attempt |-> 0, kind |-> "Unknown",
                    limit |-> max_retries, decision |-> NoDecision]

InitRetry ==
    \E attempt \in 0..MaxAttempt, kind \in FailureKind, limit \in 0..MaxRetriesOption :
        retry_policy = [stage |-> "called", attempt |-> attempt, kind |-> kind,
                        limit |-> limit, decision |-> NoDecision]

Decide ==
    /\ retry_policy.stage = "called"
    /\ retry_policy' = [retry_policy EXCEPT
                           !.stage = "decided",
                           !.decision = decide(retry_policy.attempt, retry_policy.kind,
                                               retry_policy.limit)]
    /\ UNCHANGED <<batch_vars, resource_guard, completed_order, side_vars>>

\* ------------------------------------------------------- specifications
BatchIdle ==
    /\ phase = "start"
    /\ urls = <<>>
    /\ concurrent_limit = 0
    /\ pc = <<>>
    /\ semaphore = NoSemaphore
    /\ task_result = <<>>
    /\ results = <<>>
    /\ manager_results = <<>>
    /\ failed_items = <<>>
    /\ summary = NoSummary
    /\ completed_order = <<>>

FetchIdle == fetch_call = [stage |-> "idle"]

SchedIdle == scheduler = [stage |-> "idle"]

SaveIdle == save_call = [stage |-> "idle"]

KeywordsIdle == keyword_run = [stage |-> "idle"]

SheetIdle == sheet = [stage |-> "idle"]

SideIdle == FetchIdle /\ SchedIdle /\ SaveIdle /\ KeywordsIdle /\ SheetIdle

Init == BatchIdle /\ GuardIdle /\ RetryIdle /\ SideIdle

Next ==
    \/ \E us \in UrlLists, arg \in LimitArgs : ScrapeUrlsCall(us, arg)
    \/ \E i \in Tasks : Acquire(i)
    \/ \E i \in Tasks : WakeUp(i)
    \/ \E i \in Tasks : ScrapeUrlChecks(i)
    \/ \E i \in Tasks : ScrapeUrlFetched(i)
    \/ GatherReturn
    \/ ProcessUrlListReturn
    \/ SaveFinalReport
    \/ LoadInputFails
    \/ KeyboardInterrupt

Spec == Init /\ [][Next]_vars

\* one admission query, from the sample to the answer
NextGuard == CheckResources \/ RaiseUnlessAdmitted

GuardStart == BatchIdle /\ InitGuard /\ RetryIdle /\ SideIdle

SpecGuard == GuardStart /\ [][NextGuard]_vars

\* one call of RetryPolicy.decide
NextRetry == Decide

RetryStart == BatchIdle /\ GuardIdle /\ InitRetry /\ SideIdle

SpecRetry == RetryStart /\ [][NextRetry]_vars

\* a batch during which every resource sample fails
ScrapeUrlChecksSampleFails(i) ==
    ScrapeUrlChecksWith(i, {check_resources_failed}) /\ UNCHANGED completed_order

NextFailOpen ==
    \/ \E us \in UrlLists, arg \in LimitArgs : ScrapeUrlsCall(us, arg)
    \/ \E i \in Tasks : Acquire(i)
    \/ \E i \in Tasks : WakeUp(i)
    \/ \E i \in Tasks : ScrapeUrlChecksSampleFails(i)
    \/ \E i \in Tasks : ScrapeUrlFetched(i)
    \/ GatherReturn

SpecFailOpen == Init /\ [][NextFailOpen]_vars

\* ---------------------------------------- a batch against scripted servers
\* "a" and "b" answer the first GET with the page; "c" fails two GETs with a
\* transport error (aiohttp.ClientError) and answers the third
ScenarioUrls == {"a", "b", "c"}

ServerScript(u) ==
    IF u = "c" THEN <<ClientErrorRaised, ClientErrorRaised, PageResponse>>
    ELSE <<PageResponse>>

\* the three items, in any order of submission, under a cap of 2
ScenarioLists ==
    {us \in [1..3 -> ScenarioUrls] : \A i, j \in 1..3 : i # j => us[i] # us[j]}

ScenarioLimit == [given |-> TRUE, value |-> 2]

\* the answers of check_resources with every resource within its limit
AdmittingAnswers == {resources \in ResourceAnswers : all_resources(resources)}

ScrapeUrlChecksAdmitted(i) ==
    ScrapeUrlChecksWith(i, AdmittingAnswers) /\ UNCHANGED completed_order

\* scrape_url awaits _fetch_page once (line 136): the item's GET is the first
\* one its server sees; the page, if any, is saved
ScrapeUrlFetchedScripted(i) ==
    ScrapeUrlFetchedWith(i, {Head(ServerScript(urls[i]))}, {TRUE})
        /\ UNCHANGED completed_order

NextScenario ==
    \/ \E us \in ScenarioLists : ScrapeUrlsCall(us, ScenarioLimit)
    \/ \E i \in Tasks : Acquire(i)
    \/ \E i \in Tasks : WakeUp(i)
    \/ \E i \in Tasks : ScrapeUrlChecksAdmitted(i)
    \/ \E i \in Tasks : ScrapeUrlFetchedScripted(i)
    \/ GatherReturn
    \/ ProcessUrlListReturn
    \/ SaveFinalReport

SpecScenario == Init /\ [][NextScenario]_vars

\* --------------------------------- a batch with the order of completion logged
\* task i is appended to the log by the step in which it ends
log_completion(i) ==
    completed_order' =
        IF pc[i] # "done" /\ pc'[i] = "done"
        THEN Append(completed_order, i)
        ELSE completed_order

\* the lists submitted here: a blocked domain ends an item exactly as a
\* malformed URL does (no record, before the fetch), so one of the two is kept
OrderLists == {us \in UrlLists : \A i \in DOMAIN us : us[i] # "blocked"}

ScrapeUrlChecksLogged(i) ==
    ScrapeUrlChecksWith(i, ResourceAnswers) /\ log_completion(i)

ScrapeUrlFetchedLogged(i) ==
    ScrapeUrlFetchedWith(i, FetchOutcomes, BOOLEAN) /\ log_completion(i)

NextOrder ==
    \/ \E us \in OrderLists, arg \in LimitArgs : ScrapeUrlsCall(us, arg)
    \/ \E i \in Tasks : Acquire(i)
    \/ \E i \in Tasks : WakeUp(i)
    \/ \E i \in Tasks : ScrapeUrlChecksLogged(i)
    \/ \E i \in Tasks : ScrapeUrlFetchedLogged(i)
    \/ GatherReturn

SpecOrder == Init /\ [][NextOrder]_vars

\* -------------------------------------------- one _fetch_page call on its own
\* statuses are taken within this distance of 200 and of 300
StatusSpread == 6

StatusCodes ==
    (200 - StatusSpread)..(200 + StatusSpread) \cup (300 - StatusSpread)..(300 + StatusSpread)
        \cup {404, 500}

Responses ==
    {SessionClosed, ClientErrorRaised, TimeoutRaised}
        \cup {HttpResponse(status, body) : status \in StatusCodes, body \in {"text", ""}}

NoPage == [raised |-> "-", content |-> "-"]

FetchCalled ==
    \E response \in Responses :
        fetch_call = [stage |-> "called", response |-> response, page |-> NoPage]

FetchPage ==
    /\ fetch_call.stage = "called"
    /\ fetch_call' = [fetch_call EXCEPT !.stage = "returned",
                                        !.page = fetch_page(fetch_call.response)]
    /\ UNCHANGED <<batch_vars, resource_guard, retry_policy, completed_order,
                   scheduler, save_call, keyword_run, sheet>>

NextFetch == FetchPage

FetchStart ==
    /\ BatchIdle /\ GuardIdle /\ RetryIdle
    /\ FetchCalled /\ SchedIdle /\ SaveIdle /\ KeywordsIdle /\ SheetIdle

SpecFetch == FetchStart /\ [][NextFetch]_vars

\* ------------------------------------ the batch routine under fair scheduling
\* the lists submitted here: one well-formed URL and one malformed URL stand
\* for the two ways an item runs (through the fetch, or ended by the checks)
LiveLists == {us \in UrlLists : \A i \in DOMAIN us : us[i] \in {"a", "not_a_url"}}

NextBatch ==
    \/ \E us \in LiveLists, arg \in LimitArgs : ScrapeUrlsCall(us, arg)
    \/ \E i \in Tasks : Acquire(i)
    \/ \E i \in Tasks : WakeUp(i)
    \/ \E i \in Tasks : ScrapeUrlChecks(i)
    \/ \E i \in Tasks : ScrapeUrlFetched(i)
    \/ GatherReturn

\* the event loop runs every ready task step (first step, wake-up, the checks
\* of scrape_url, the resumption of gather), and every GET ends: the session
\* has a total timeout (lines 71-78)
FairScheduling ==
    /\ WF_vars(\E i \in Tasks : Acquire(i))
    /\ WF_vars(\E i \in Tasks : WakeUp(i))
    /\ WF_vars(\E i \in Tasks : ScrapeUrlChecks(i))
    /\ WF_vars(\E i \in Tasks : ScrapeUrlFetched(i))
    /\ WF_vars(GatherReturn)

SpecLive == Init /\ [][NextBatch]_vars /\ FairScheduling

\* ------------------------------ the Scheduler with retries (specification 4.4)
\* The source's batch routine runs every item once; config.py declares
\* max_retries and retry_delay but no source file re-queues an item. The
\* scheduler that does is modelled from the specification.
MaxSchedItems == 3

SchedCaps == {1, 2}

\* what a FetchWorker returns (4.3), by the kinds that differ in retry handling
WorkerOutcomes == {"Success", "Network", "Validation"}

\* 4.4 step 1: every item Queued, in submission order, nothing in flight
SchedStarted ==
    \E n \in 1..MaxSchedItems, cap \in SchedCaps :
        scheduler = [stage |-> "running", cap |-> cap,
                     state |-> [i \in 1..n |-> "Queued"],
                     attempt |-> [i \in 1..n |-> 0],
                     queue |-> [i \in 1..n |-> i],
                     in_flight |-> 0]

SchedOthersUnchanged ==
    UNCHANGED <<batch_vars, resource_guard, retry_policy, completed_order,
                fetch_call, save_call, keyword_run, sheet>>

\* 4.4 step 2: with a worker slot open, the next Queued item is dispatched
SchedAdmit ==
    /\ scheduler.stage = "running"
    /\ scheduler.in_flight < scheduler.cap
    /\ scheduler.queue # <<>>
    /\ scheduler' = [scheduler EXCEPT
                         !.state[Head(scheduler.queue)] = "InFlight",
                         !.queue = Tail(@),
                         !.in_flight = @ + 1]
    /\ SchedOthersUnchanged

\* (variant of slots_after_outcome: an item that will be retried keeps its slot)
slots_held_for_retry(in_flight, decision) ==
    IF decision.action = "Retry" THEN in_flight ELSE in_flight - 1

\* 4.4 step 3: on a worker's outcome in_flight is decremented, whatever follows
slots_after_outcome(in_flight, decision) == in_flight - 1

\* 4.4 step 3: the state an item takes on its worker's outcome; a failure
\* that is not retriable (Validation) is final without asking the policy
state_after_outcome(outcome, decision) ==
    IF outcome = "Success" THEN "Succeeded"
    ELSE IF outcome = "Validation" THEN "GivenUp"
    ELSE IF decision.action = "Retry" THEN "AwaitingRetry"
    ELSE "GivenUp"

\* the worker has incremented the item's attempt before it returns a failure
SchedOutcome(i, outcome) ==
    /\ scheduler.stage = "running"
    /\ scheduler.state[i] = "InFlight"
    /\ LET attempt == IF outcome = "Success"
                      THEN scheduler.attempt[i] ELSE scheduler.attempt[i] + 1
           decision == decide(attempt, outcome, max_retries)
       IN scheduler' = [scheduler EXCEPT
                           !.attempt[i] = attempt,
                           !.state[i] = state_after_outcome(outcome, decision),
                           !.in_flight = slots_after_outcome(@, decision)]
    /\ SchedOthersUnchanged

\* 4.4: AwaitingRetry -> Queued after the delay elapses; the item is appended
\* behind the items already queued
SchedDelayElapsed(i) ==
    /\ scheduler.stage = "running"
    /\ scheduler.state[i] = "AwaitingRetry"
    /\ scheduler' = [scheduler EXCEPT
                         !.state[i] = "Queued",
                         !.queue = Append(@, i)]
    /\ SchedOthersUnchanged

\* 4.4 step 4: the Scheduler ends when all items are terminal
SchedEnd ==
    /\ scheduler.stage = "running"
    /\ \A i \in DOMAIN scheduler.state : scheduler.state[i] \in {"Succeeded", "GivenUp"}
    /\ scheduler' = [scheduler EXCEPT !.stage = "ended"]
    /\ SchedOthersUnchanged

NextSched ==
    \/ SchedAdmit
    \/ \E i \in DOMAIN scheduler.state, outcome \in WorkerOutcomes : SchedOutcome(i, outcome)
    \/ \E i \in DOMAIN scheduler.state : SchedDelayElapsed(i)
    \/ SchedEnd

SchedStart ==
    /\ BatchIdle /\ GuardIdle /\ RetryIdle
    /\ FetchIdle /\ SchedStarted /\ SaveIdle /\ KeywordsIdle /\ SheetIdle

SpecSched == SchedStart /\ [][NextSched]_vars

\* ------------------------------- ContentProcessor.save_results (134-212)
\* most results handed to one save
MaxResults == 2

Keywords == {"k1", "k2"}

\* how one pass through the try block (151-194) ends: both files written, the
\* JSON dump raises, or the Excel write raises after the JSON file was written
WriteOutcomes == {"ok", "json_fails", "excel_fails"}

SavedFile(dir, call) == [dir |-> dir, keyword |-> call.keyword, total_results |-> call.total_results]

\* the call save_results(keyword, results, retry)
SaveCalled ==
    \E keyword \in Keywords, n \in 0..MaxResults, retry \in BOOLEAN :
        save_call = [stage |-> "trying", keyword |-> keyword, total_results |-> n,
                     retry |-> retry, attempts |-> <<>>, fallback |-> <<>>,
                     files |-> <<>>, raised |-> FALSE]

SaveOthersUnchanged ==
    UNCHANGED <<batch_vars, resource_guard, retry_policy, completed_order,
                fetch_call, scheduler, keyword_run, sheet>>

\* the files one pass of the try block leaves behind
files_written(call, outcome) ==
    IF outcome = "ok" THEN <<SavedFile("json", call), SavedFile("excel", call)>>
    ELSE IF outcome = "excel_fails" THEN <<SavedFile("json", call)>>
    ELSE <<>>

\* (variant of retry_argument: the flag is passed on as it was)
retry_argument_kept(retry) == retry

\* line 203: the retry flag of the recursive call
retry_argument(retry) == FALSE

\* lines 151-203: one pass through the try block; on an exception the except
\* branch either calls save_results again (200-203) or goes to the fallback
SaveTry(outcome) ==
    /\ save_call.stage = "trying"
    /\ save_call' = [save_call EXCEPT
                         !.attempts = Append(@, outcome),
                         !.files = @ \o files_written(save_call, outcome),
                         !.retry = IF outcome = "ok" THEN @ ELSE retry_argument(@),
                         !.stage = IF outcome = "ok" THEN "returned"
                                   ELSE IF save_call.retry THEN "trying"
                                   ELSE "fallback"]
    /\ SaveOthersUnchanged

\* lines 204-212: the write to the failed directory, in its own try/except:
\* an exception is logged, nothing is raised
SaveFallback(ok) ==
    /\ save_call.stage = "fallback"
    /\ save_call' = [save_call EXCEPT
                         !.fallback = Append(@, ok),
                         !.files = IF ok THEN Append(@, SavedFile("failed", save_call)) ELSE @,
                         !.stage = "returned"]
    /\ SaveOthersUnchanged

NextSave ==
    \/ \E outcome \in WriteOutcomes : SaveTry(outcome)
    \/ \E ok \in BOOLEAN : SaveFallback(ok)

SaveStart ==
    /\ BatchIdle /\ GuardIdle /\ RetryIdle
    /\ FetchIdle /\ SchedIdle /\ SaveCalled /\ KeywordsIdle /\ SheetIdle

SpecSave == SaveStart /\ [][NextSave]_vars

\* --------------------- ContentProcessor.process_keyword / process_keywords
\* longest keyword list, and most results one search returns
MaxKeywords == 2
MaxSearchResults == 2

KeywordLists == UNION {[1..n -> Keywords] : n \in 0..MaxKeywords}

\* what search_google does for a keyword: it raises, or it returns `found`
\* results of which `valid` have a title and a link
SearchOutcomes ==
    {[kind |-> "raises", found |-> 0, valid |-> 0]}
        \cup {r \in [kind : {"results"}, found : 0..MaxSearchResults,
                      valid : 0..MaxSearchResults] : r.valid <= r.found}

\* __init__, lines 26-33 (errors is the length of the error list)
NewStats ==
    [processed_keywords |-> 0, successful_searches |-> 0, failed_searches |-> 0,
     total_results |-> 0, errors |-> 0]

\* process_result (70-93) over the results of one search: the number it keeps
\* and the number of errors it appends. Line 75 evaluates
\* self.current_keyword, an attribute no source file assigns: unless the
\* caller has set it, every result raises AttributeError, which line 90
\* catches (one error appended, None returned).
process_results_of(search, current_keyword_set) ==
    IF current_keyword_set
    THEN [kept |-> search.valid, errors |-> 0]
    ELSE [kept |-> 0, errors |-> search.found]

\* (variant of process_keyword: the search is counted successful as soon as it
\* returns results, and failed when none of them is kept)
process_keyword_both(stats, search, current_keyword_set) ==
    LET counted == [stats EXCEPT !.processed_keywords = @ + 1]
        done == process_results_of(search, current_keyword_set)
    IN  IF search.kind = "raises"
        THEN [stats |-> [counted EXCEPT !.errors = @ + 1, !.failed_searches = @ + 1],
              results |-> 0]
        ELSE IF search.found = 0
        THEN [stats |-> [counted EXCEPT !.failed_searches = @ + 1], results |-> 0]
        ELSE [stats |-> [counted EXCEPT
                            !.errors = @ + done.errors,
                            !.successful_searches = @ + 1,
                            !.failed_searches = IF done.kept = 0 THEN @ + 1 ELSE @,
                            !.total_results = @ + done.kept],
              results |-> done.kept]

\* process_keyword (95-132): the stats after the call and the number of
\* results it returns
process_keyword(stats, search, current_keyword_set) ==
    LET counted == [stats EXCEPT !.processed_keywords = @ + 1]
        done == process_results_of(search, current_keyword_set)
    IN  IF search.kind = "raises"
        THEN [stats |-> [counted EXCEPT !.errors = @ + 1, !.failed_searches = @ + 1],
              results |-> 0]
        ELSE IF search.found = 0
        THEN [stats |-> [counted EXCEPT !.failed_searches = @ + 1], results |-> 0]
        ELSE IF done.kept > 0
        THEN [stats |-> [counted EXCEPT
                            !.errors = @ + done.errors,
                            !.successful_searches = @ + 1,
                            !.total_results = @ + done.kept],
              results |-> done.kept]
        ELSE [stats |-> [counted EXCEPT !.errors = @ + done.errors], results |-> 0]

\* the call process_keywords(keywords) on a fresh ContentProcessor;
\* current_keyword_set: whether the caller assigned self.current_keyword
KeywordsCalled ==
    \E keywords \in KeywordLists, current_keyword_set \in BOOLEAN :
        keyword_run = [stage |-> "backup", keywords |-> keywords,
                       current_keyword_set |-> current_keyword_set,
                       idx |-> 0, progress |-> 0, stats |-> NewStats,
                       log |-> <<>>, saves |-> 0, stats_saves |-> 0,
                       pending |-> "-", raised_in |-> "-"]

KeywordsOthersUnchanged ==
    UNCHANGED <<batch_vars, resource_guard, retry_policy, completed_order,
                fetch_call, scheduler, save_call, sheet>>

\* lines 216-217, before the try: backup_existing_files catches its own
\* errors; a user interrupt during it leaves process_keywords at once
BackupDone ==
    /\ keyword_run.stage = "backup"
    /\ keyword_run' = [keyword_run EXCEPT !.stage = "entering"]
    /\ KeywordsOthersUnchanged

BackupInterrupted ==
    /\ keyword_run.stage = "backup"
    /\ keyword_run' = [keyword_run EXCEPT !.stage = "raised",
                                          !.pending = "KeyboardInterrupt",
                                          !.raised_in = "backup"]
    /\ KeywordsOthersUnchanged

\* line 220: the progress bar is created, or creating it raises
EnterLoop(ok) ==
    /\ keyword_run.stage = "entering"
    /\ keyword_run' = IF ok THEN [keyword_run EXCEPT !.stage = "loop"]
                      ELSE [keyword_run EXCEPT !.stage = "aborting",
                                               !.pending = "Exception",
                                               !.raised_in = "entering"]
    /\ KeywordsOthersUnchanged

\* what happens during the iteration of one keyword
KeywordEvents == {"run", "fault", "interrupt_before", "interrupt_after"}

\* (variant of progress_after: update(1) is in the try body, not in finally)
progress_after_success(progress, event) ==
    IF event = "run" THEN progress + 1 ELSE progress

\* lines 238-240: finally, the progress bar is advanced
progress_after(progress, event) == progress + 1

\* lines 221-240: one iteration. "fault": set_description raises an
\* Exception, caught at 232 (error appended, continue). "interrupt_before" /
\* "interrupt_after": KeyboardInterrupt before / after process_keyword ran;
\* it is not an Exception, so after `finally` it leaves the loop.
\* "run": process_keyword, then save_results when it returned results.
KeywordStep(event, search) ==
    /\ keyword_run.stage = "loop"
    /\ keyword_run.idx < Len(keyword_run.keywords)
    /\ LET called == process_keyword(keyword_run.stats, search,
                                     keyword_run.current_keyword_set)
           stats == IF event = "fault"
                    THEN [keyword_run.stats EXCEPT !.errors = @ + 1]
                    ELSE IF event = "interrupt_before" THEN keyword_run.stats
                    ELSE called.stats
           interrupted == event \in {"interrupt_before", "interrupt_after"}
       IN keyword_run' = [keyword_run EXCEPT
                             !.idx = @ + 1,
                             !.stats = stats,
                             !.log = Append(@, event),
                             !.saves = IF event = "run" /\ called.results > 0
                                       THEN @ + 1 ELSE @,
                             !.progress = progress_after(@, event),
                             !.stage = IF interrupted THEN "aborting" ELSE "loop",
                             !.pending = IF interrupted THEN "KeyboardInterrupt" ELSE "-",
                             !.raised_in = IF interrupted THEN "loop" ELSE "-"]
    /\ KeywordsOthersUnchanged

\* lines 242-243: after the last keyword the stats are saved and the call returns
KeywordsFinish ==
    /\ keyword_run.stage = "loop"
    /\ keyword_run.idx = Len(keyword_run.keywords)
    /\ keyword_run' = [keyword_run EXCEPT !.stage = "returned", !.stats_saves = @ + 1]
    /\ KeywordsOthersUnchanged

\* lines 245-253: both handlers call save_processing_stats and re-raise
KeywordsAbort ==
    /\ keyword_run.stage = "aborting"
    /\ keyword_run' = [keyword_run EXCEPT !.stage = "raised", !.stats_saves = @ + 1]
    /\ KeywordsOthersUnchanged

NextKeywords ==
    \/ BackupDone
    \/ BackupInterrupted
    \/ \E ok \in BOOLEAN : EnterLoop(ok)
    \/ \E event \in KeywordEvents, search \in SearchOutcomes : KeywordStep(event, search)
    \/ KeywordsFinish
    \/ KeywordsAbort

KeywordsStart ==
    /\ BatchIdle /\ GuardIdle /\ RetryIdle
    /\ FetchIdle /\ SchedIdle /\ SaveIdle /\ KeywordsCalled /\ SheetIdle

SpecKeywords == KeywordsStart /\ [][NextKeywords]_vars

\* ------------------------------- ContentScraper.save_content_to_excel
\* most calls made on one spreadsheet
MaxSheetSaves == 3

SheetUrls == {"u1", "u2"}
\* extract_content's value: None when it failed, else the extracted content
SheetContents == {"None", "v1", "v2"}
\* to_excel: writes the file, raises leaving the file as it was, or raises
\* leaving a file that cannot be read
ExcelWrites == {"ok", "fails", "fails_corrupt"}

NeverSaved == "-"

\* one spreadsheet file, not yet created, and a ContentScraper saving into it
SheetOpened ==
    sheet = [stage |-> "open", file |-> "absent", rows |-> <<>>, calls |-> 0,
             last_written |-> [u \in SheetUrls |-> NeverSaved],
             last_call |-> [url |-> "-", content |-> "-", present |-> FALSE,
                            written |-> FALSE],
             raised |-> FALSE]

SheetOthersUnchanged ==
    UNCHANGED <<batch_vars, resource_guard, retry_policy, completed_order,
                fetch_call, scheduler, save_call, keyword_run>>

has_row(rows, url) == \E k \in 1..Len(rows) : rows[k].url = url

\* (variant of other_rows: the rows read from the file are all kept)
all_rows(rows, url) == rows

\* line 116: existing_df[existing_df['URL'] != url]
other_rows(rows, url) == SelectSeq(rows, LAMBDA r : r.url # url)

\* lines 99-121: the frame to write: the new row, after the other rows of the
\* file when the file exists and could be read
frame_to_write(file, rows, url, content, read_ok) ==
    IF file = "readable" /\ read_ok
    THEN Append(other_rows(rows, url), [url |-> url, content |-> content])
    ELSE <<[url |-> url, content |-> content]>>

\* lines 93-126: one call; every exception is caught at 125 and logged
SaveContentToExcel(url, content, read_ok, write) ==
    /\ sheet.stage = "open"
    /\ sheet.calls < MaxSheetSaves
    /\ LET skipped == ~truthy(content)
           written == ~skipped /\ write = "ok"
           call == [url |-> url, content |-> content,
                    present |-> has_row(sheet.rows, url), written |-> written]
       IN  sheet' = [sheet EXCEPT
                        !.calls = @ + 1,
                        !.last_call = call,
                        !.file = IF skipped \/ write = "fails" THEN @
                                 ELSE IF write = "ok" THEN "readable" ELSE "corrupt",
                        !.rows = IF skipped \/ write = "fails" THEN @
                                 ELSE IF write = "ok"
                                 THEN frame_to_write(sheet.file, sheet.rows, url,
                                                     content, read_ok)
                                 ELSE <<>>,
                        !.last_written = IF written
                                         THEN [@ EXCEPT ![url] = content] ELSE @]
    /\ SheetOthersUnchanged

NextSheet ==
    \E url \in SheetUrls, content \in SheetContents, read_ok \in BOOLEAN,
       write \in ExcelWrites : SaveContentToExcel(url, content, read_ok, write)

SheetStart ==
    /\ BatchIdle /\ GuardIdle /\ RetryIdle
    /\ FetchIdle /\ SchedIdle /\ SaveIdle /\ KeywordsIdle /\ SheetOpened

SpecSheet == SheetStart /\ [][NextSheet]_vars

\* ======================================================== properties
Range(f) == {f[i] : i \in DOMAIN f}

AfterBatch == phase \in {"returned", "recorded", "reported"}

Reported == phase \in {"recorded", "reported"}

\* ---- C1 ----
succeeded_count ==
    Cardinality({k \in DOMAIN manager_results : manager_results[k].status = "success"})

failed_count ==
    Cardinality({k \in DOMAIN manager_results : manager_results[k].status = "failed"})
    + Len(failed_items)

\* C1 (as claimed): once the batch has been recorded, the succeeded outcomes
\* and the failed outcomes together are as many as the submitted URLs.
C1_Conservation == Reported => succeeded_count + failed_count = Len(urls)

\* ---- C2 ----
InFlight == {i \in Tasks : pc[i] \in {"acquired", "fetching"}}

\* C2: while the batch runs, the number of tasks inside `async with semaphore`
\* never exceeds concurrent_limit, and the permits left are the difference.
C2_ConcurrencyBound ==
    phase = "gather" =>
        /\ Cardinality(InFlight) <= concurrent_limit
        /\ semaphore.value = concurrent_limit - Cardinality(InFlight)

\* the cap binds: every permit is taken and a task is waiting for one
C2_Witness ==
    /\ phase = "gather"
    /\ Cardinality(InFlight) = concurrent_limit
    /\ \E i \in Tasks : pc[i] = "waiting"

\* ---- C3 ----
Queued(i) == pc[i] = "pending" \/ i \in Range(semaphore.waiters)

InFlightItem(i) == pc[i] \in {"acquired", "fetching"}

Terminal(i) == task_result[i] # NoResult

\* C3: between submission and the return of the batch every item is queued
\* (not started, or in the semaphore's wait queue), in flight, or terminal
\* (its task holds a result), and never two of these; after the return every
\* item has its entry in the result list.
C3_ExactlyOneState ==
    /\ phase = "gather" =>
          \A i \in Items :
              /\ Queued(i) \/ InFlightItem(i) \/ Terminal(i)
              /\ ~(Queued(i) /\ InFlightItem(i))
              /\ ~(Queued(i) /\ Terminal(i))
              /\ ~(InFlightItem(i) /\ Terminal(i))
    /\ AfterBatch => Len(results) = Len(urls)

\* one item of each kind at the same instant, the queued one waiting for a permit
C3_Witness ==
    /\ phase = "gather"
    /\ \E i, j, k \in Items :
          /\ Terminal(i) /\ InFlightItem(j) /\ Queued(k)
          /\ pc[k] = "waiting"

\* ---- C4 ----
Outcome(r) == IF r.kind = "dict" /\ r.status = "success" THEN "Succeeded" ELSE "GivenUp"

ItemState(i) ==
    IF phase = "gather"
    THEN IF Terminal(i) THEN Outcome(task_result[i])
         ELSE IF InFlightItem(i) THEN "InFlight"
         ELSE "Queued"
    ELSE Outcome(results[i])

AllowedMoves ==
    {<<"Queued", "InFlight">>, <<"InFlight", "Succeeded">>,
     <<"InFlight", "AwaitingRetry">>, <<"InFlight", "GivenUp">>,
     <<"AwaitingRetry", "Queued">>}

\* C4: every change of an item's state is one of Queued -> InFlight,
\* InFlight -> Succeeded / AwaitingRetry / GivenUp, AwaitingRetry -> Queued;
\* so Succeeded and GivenUp are never left and InFlight is entered from Queued
\* only (while the run is not interrupted).
C4_Moves ==
    [][\A i \in Items :
          (phase # "start" /\ phase' # "interrupted" /\ ItemState(i)' # ItemState(i))
              => <<ItemState(i), ItemState(i)'>> \in AllowedMoves]_vars

\* an item has succeeded and another was given up while a third is still to run
C4_Witness ==
    /\ phase = "gather"
    /\ \E i, j, k \in Items :
          /\ ItemState(i) = "Succeeded"
          /\ ItemState(j) = "GivenUp"
          /\ ItemState(k) = "Queued"

\* ---- C5 ----
\* C5 (as claimed): no item id (URL) is recorded more than once in the
\* manager's results.
C5_RecordedOnce ==
    Reported =>
        \A k, l \in DOMAIN manager_results :
            (k # l /\ manager_results[k].url # "-")
                => manager_results[k].url # manager_results[l].url

\* ---- C9 ----
\* the item reached the resource check of scrape_url
Queried(i) == is_valid_url(urls[i]) /\ is_safe_domain(urls[i])

RefusedRecord == TaskFailedRecord("RESOURCE_ERROR")

\* the batch has returned and the check refused every time it was asked
EveryQueryRefused ==
    /\ phase = "returned"
    /\ \A i \in Items : Queried(i) => results[i] = RefusedRecord

\* C9 (as claimed): when the resource check refuses on every query the batch
\* still returns, and no refusal is recorded as the failure of an item.
C9_Backpressure ==
    EveryQueryRefused => \A i \in Items : results[i] # RefusedRecord

\* ---- C10 ----
Refuses(snapshot) ==
    \/ snapshot.memory_percent >= 75
    \/ snapshot.cpu_percent >= 85
    \/ snapshot.active_connections >= 100

\* C10: the admission query raises ResourceError exactly when memory is at or
\* above 75, or cpu at or above 85, or connections at or above 100; the memory
\* monitor applies the same inclusive comparison to the memory limit.
C10_AdmissionLimits ==
    /\ resource_guard.stage = "answered" =>
          (resource_guard.raised <=> Refuses(resource_guard.snapshot))
    /\ resource_guard.stage # "idle" =>
          (resource_guard.pressure <=> resource_guard.snapshot.memory_percent >= 75)

\* memory exactly at its limit, the other two below theirs: refused
C10_Witness ==
    /\ resource_guard.stage = "answered"
    /\ resource_guard.snapshot.memory_percent = 75
    /\ resource_guard.snapshot.cpu_percent < 85
    /\ resource_guard.snapshot.active_connections < 100
    /\ resource_guard.raised

\* ---- C6 ----
Decided == retry_policy.stage = "decided"

\* C6: decide gives GiveUp for every failure kind once attempt has reached the
\* configured max_retries; with the default max_retries, decide(3, Network)
\* is GiveUp.
C6_GiveUpAtLimit ==
    Decided =>
        /\ retry_policy.attempt >= retry_policy.limit => retry_policy.decision = GiveUp
        /\ (retry_policy.attempt = 3 /\ retry_policy.kind = "Network"
              /\ retry_policy.limit = max_retries) => retry_policy.decision = GiveUp

\* decide(3, Network) under max_retries = 3 has been taken
C6_Witness ==
    /\ Decided
    /\ retry_policy.attempt = 3
    /\ retry_policy.kind = "Network"
    /\ retry_policy.limit = 3
    /\ retry_policy.decision = GiveUp

\* ---- C7 ----
\* C7: a Validation failure is given up at attempt 0, and at every later
\* attempt, whatever max_retries is configured.
C7_ValidationGivesUp ==
    (Decided /\ retry_policy.kind = "Validation") => retry_policy.decision = GiveUp

\* decide(0, Validation) under a max_retries that would allow retries
C7_Witness ==
    /\ Decided
    /\ retry_policy.kind = "Validation"
    /\ retry_policy.attempt = 0
    /\ retry_policy.limit = MaxRetriesOption
    /\ retry_policy.decision = GiveUp

\* ---- C8 ----
\* C8 (as claimed): under the default configuration a Network failure at
\* attempt 1, 2 or 3 is retried after 5, 10 or 15.
C8_Schedule ==
    (Decided /\ retry_policy.kind = "Network" /\ retry_policy.limit = max_retries
       /\ retry_policy.attempt \in 1..3)
        => retry_policy.decision = Retry(5 * retry_policy.attempt)

\* C8 (amended): a Network failure at an attempt below max_retries is retried
\* after 5 * attempt; at an attempt that has reached max_retries there is no
\* retry, so with the default max_retries = 3 the delays are 5 and 10 only.
C8_ScheduleBelowLimit ==
    (Decided /\ retry_policy.kind = "Network") =>
        IF retry_policy.attempt < retry_policy.limit
        THEN retry_policy.decision = Retry(5 * retry_policy.attempt)
        ELSE retry_policy.decision.action = "GiveUp"

\* attempt 3 retried after 15, which needs max_retries above 3
C8_Witness ==
    /\ Decided
    /\ retry_policy.kind = "Network"
    /\ retry_policy.attempt = 3
    /\ retry_policy.limit > 3
    /\ retry_policy.decision = Retry(15)

\* ---- C11 ----
\* what scrape_url can return for u once the page fetch was started
FetchedResults(u) ==
    {scrape_url_fetched(u, outcome, save_ok) : outcome \in FetchOutcomes, save_ok \in BOOLEAN}

\* C11: in a batch during which every resource sample fails, no item is
\* refused: every item that reaches the resource check goes on to the page
\* fetch and ends with what the fetch gave, and the batch returns one entry
\* per submitted item, none of them a ResourceError.
C11_FailOpen ==
    /\ phase = "gather" =>
          \A i \in Items :
              (Queried(i) /\ Terminal(i)) => task_result[i] \in FetchedResults(urls[i])
    /\ phase = "returned" =>
          /\ Len(results) = Len(urls)
          /\ \A i \in Items : results[i] # RefusedRecord
          /\ \A i \in Items : Queried(i) => results[i] \in FetchedResults(urls[i])

\* such a batch returned with an item fetched and saved
C11_Witness ==
    /\ phase = "returned"
    /\ Len(urls) = MaxUrls
    /\ \A i \in Items : Queried(i) /\ results[i] = SavedRecord(urls[i], TRUE)

\* ---- C12 ----
\* the item has been moved from queued to in flight
Admitted(i) == InFlightItem(i) \/ Terminal(i)

\* C12: items are admitted in queue order, and the queue is in submission
\* order: an item is never in flight or finished while an item submitted
\* before it is still queued, and the semaphore's wait queue holds the items
\* by increasing submission index. (The batch routine never re-queues an item,
\* so no retried item is ever in the queue.)
C12_FifoAdmission ==
    phase = "gather" =>
        /\ \A i, j \in Items : (i < j /\ Admitted(j)) => ~Queued(i)
        /\ \A k, l \in DOMAIN semaphore.waiters :
               k < l => semaphore.waiters[k] < semaphore.waiters[l]

\* under a cap of 1 the second item was admitted from the wait queue after the
\* first had finished, and the third is still waiting behind it
C12_Witness ==
    /\ phase = "gather"
    /\ concurrent_limit = 1
    /\ Len(urls) >= 3
    /\ Terminal(1)
    /\ InFlightItem(2)
    /\ semaphore.waiters # <<>>
    /\ Head(semaphore.waiters) = 3

\* ---- C13 ----
\* a result entry that classifies the item as failed
FailureEntry(r) == r.kind = "dict" /\ r.status = "failed"

\* C13 (as claimed): the batch returns one entry per item, and an item whose
\* processing raised (here: a malformed URL or a blocked domain, which always
\* raise) is represented by a failure entry.
C13_Containment ==
    phase = "returned" =>
        /\ Len(results) = Len(urls)
        /\ \A i \in Items : ~Queried(i) => FailureEntry(results[i])

\* ---- C14 ----
\* main has returned: after save_final_report, or from a handler of the load
RunEnded == phase \in {"reported", "load_failed"}

\* C14 (as claimed): whenever the top-level run has ended, the report
\* (summary.json) has been written.
C14_ReportAlways == RunEnded => summary.written

\* ---- C15 ----
\* C15 (as claimed): a run finalized with no succeeded and no failed item has
\* a report, whose success_rate is 0.
C15_ZeroRate ==
    (phase = "reported" /\ Len(manager_results) + Len(failed_items) = 0)
        => (summary.written /\ summary.success_rate = 0)

\* ---- C16 ----
\* the entries of the written report that are about item i
ReportEntries(i) == {k \in DOMAIN manager_results : manager_results[k].url = urls[i]}

\* C16 (as claimed): after a user interrupt a report has been written in which
\* every submitted item appears exactly once.
C16_CancelReport ==
    phase = "interrupted" =>
        /\ summary.written
        /\ \A i \in Items : Cardinality(ReportEntries(i)) = 1

\* ---- C17 ----
\* the item's server answers with the page at some attempt
EventuallySucceeds(u) == \E k \in DOMAIN ServerScript(u) : ServerScript(u)[k] = PageResponse

\* C17 (as claimed): three items under a cap of 2, each of which succeeds at
\* once or after failed attempts, are all reported as succeeded: 3 successes,
\* no failure, 3 processed, success rate 100%.
C17_RetriesNotFailures ==
    (phase = "reported" /\ \A i \in Items : EventuallySucceeds(urls[i])) =>
        /\ succeeded_count = 3
        /\ failed_count = 0
        /\ summary.total_processed = 3
        /\ summary.success_rate = 100

\* ---- C18 ----
\* the pages that were fetched and yielded nothing: scrape_url returned no record
NoRecordYielded ==
    {k \in DOMAIN manager_results : Queried(k) /\ manager_results[k] = NoneValue}

\* C18 (as claimed): in the written report every item whose page yielded no
\* record is counted among the failures and none of them among the successes.
C18_NullIsFailure ==
    (phase = "reported" /\ summary.written) =>
        /\ summary.failed >= Cardinality(NoRecordYielded)
        /\ summary.successful + Cardinality(NoRecordYielded) <= Len(manager_results)

C20_StatusRecords ==
    phase = "returned" =>
        /\ Len(results) = Len(urls)
        /\ \A i \in Items :
               results[i].kind = "dict" /\ results[i].status \in {"success", "failed"}

\* ---- C21 ----
\* C21 (as claimed): no fetch is ever issued for a malformed URL, and in the
\* returned list the item is a failure entry classified Validation.
C21_MalformedIsValidation ==
    /\ phase = "gather" =>
          \A i \in Items : ~is_valid_url(urls[i]) => pc[i] # "fetching"
    /\ phase = "returned" =>
          \A i \in Items :
              ~is_valid_url(urls[i])
                  => (FailureEntry(results[i]) /\ results[i].error = "Validation")

\* ---- C22 ----
\* the call ended with an error of the Network / Timeout kind
FetchFailed == fetch_call.page.raised \in {"NetworkError", "TimeoutError"}

\* C22 (as claimed): with the session open, the fetch fails exactly when the
\* transport raised or the response status is outside 200..299; every 2xx
\* response gives its body.
C22_Non2xxFails ==
    (fetch_call.stage = "returned" /\ fetch_call.response.outcome # "session_closed") =>
        /\ FetchFailed <=>
              \/ fetch_call.response.outcome \in {"client_error", "timeout"}
              \/ fetch_call.response.status \notin 200..299
        /\ ~FetchFailed => fetch_call.page.content = fetch_call.response.body

\* ---- C23 ----
\* C23: under fair scheduling a batch that was started returns, and it returns
\* in a step that finds every item terminal, never earlier. (An item is run
\* once, so it cannot cycle between queued and in flight.)
C23_Termination ==
    /\ (phase = "gather") ~> (phase = "returned")
    /\ [][(phase = "gather" /\ phase' = "returned")
            => \A i \in Items : Terminal(i)]_vars

\* a batch of the longest list has returned
C23_Witness ==
    /\ phase = "returned"
    /\ Len(urls) = MaxUrls
    /\ Len(results) = MaxUrls

\* ---- C24 ----
SchedIn(state) == {i \in DOMAIN scheduler.state : scheduler.state[i] = state}

FallbackFiles == {k \in DOMAIN save_call.files : save_call.files[k].dir = "failed"}

AllAttemptsFailed == \A k \in DOMAIN save_call.attempts : save_call.attempts[k] # "ok"

\* C25: save_results makes at most two write attempts and at most one
\* fallback write; the fallback is written only after every attempt failed,
\* and after two failed attempts it is always tried; the call returns without
\* raising whatever the writes do, with the data in the failed directory once
\* exactly when the fallback write succeeded.
C25_SaveBounded ==
    save_call.stage # "idle" =>
        /\ Len(save_call.attempts) <= 2
        /\ Len(save_call.fallback) <= 1
        /\ save_call.fallback # <<>> => AllAttemptsFailed
        /\ ~save_call.raised
        /\ save_call.stage = "returned" =>
              /\ Len(save_call.attempts) >= 1
              /\ (Len(save_call.attempts) = 2 /\ AllAttemptsFailed)
                    => Len(save_call.fallback) = 1
              /\ Cardinality(FallbackFiles) =
                    (IF save_call.fallback = <<TRUE>> THEN 1 ELSE 0)

\* both attempts and the fallback write failed, and the call returned
C25_Witness ==
    /\ save_call.stage = "returned"
    /\ Len(save_call.attempts) = 2
    /\ AllAttemptsFailed
    /\ save_call.fallback = <<FALSE>>
    /\ ~save_call.raised


\* the number of iterations of the log in which the event was e
RECURSIVE count_events(_, _)
count_events(log, e) ==
    IF log = <<>> THEN 0
    ELSE (IF Head(log) = e THEN 1 ELSE 0) + count_events(Tail(log), e)

KeywordsAborted == keyword_run.stage = "raised" /\ keyword_run.raised_in # "backup"

C30_StatsAccounting ==
    /\ [](keyword_run.stats.successful_searches + keyword_run.stats.failed_searches
             <= keyword_run.stats.processed_keywords)
    /\ [][LET before == keyword_run.stats
              after == keyword_run'.stats
              called == keyword_run'.idx > keyword_run.idx
                          /\ keyword_run'.log[keyword_run'.idx]
                                 \in {"run", "interrupt_after"}
              d_processed == after.processed_keywords - before.processed_keywords
              d_successful == after.successful_searches - before.successful_searches
              d_failed == after.failed_searches - before.failed_searches
              d_total == after.total_results - before.total_results
          IN  /\ d_processed = (IF called THEN 1 ELSE 0)
              /\ d_successful \in {0, 1} /\ d_failed \in {0, 1}
              /\ d_successful + d_failed <= d_processed
              /\ d_total >= 0
              /\ d_total > 0 => d_successful = 1]_vars

\* with self.current_keyword unassigned, as the sources leave it: one keyword
\* whose search failed and one whose results were all dropped, so that
\* neither counter moved for it
C30_Witness ==
    /\ keyword_run.stage = "returned"
    /\ ~keyword_run.current_keyword_set
    /\ keyword_run.stats.processed_keywords = 2
    /\ keyword_run.stats.failed_searches = 1
    /\ keyword_run.stats.successful_searches = 0
    /\ keyword_run.stats.errors = MaxSearchResults

\* C27: the sheet never holds two rows with the same URL, every row holds the
\* content of the last save of its URL that was written, a written save of a
\* URL leaves exactly its row for that URL whether or not the URL was present,
\* and no call raises.
C27_OneRowPerUrl ==
    /\ \A j, k \in 1..Len(sheet.rows) :
          sheet.rows[j].url = sheet.rows[k].url => j = k
    /\ \A k \in 1..Len(sheet.rows) :
          sheet.rows[k].content = sheet.last_written[sheet.rows[k].url]
    /\ sheet.last_call.written
          => /\ sheet.rows # <<>>
             /\ sheet.rows[Len(sheet.rows)] =
                    [url |-> sheet.last_call.url, content |-> sheet.last_call.content]
    /\ ~sheet.raised

\* a URL that had a row was saved again with other content while the other
\* URL's row was kept
C27_Witness ==
    /\ sheet.last_call.written /\ sheet.last_call.present
    /\ sheet.last_call.url = "u1" /\ sheet.last_call.content = "v2"
    /\ sheet.rows = <<[url |-> "u2", content |-> "v1"], [url |-> "u1", content |-> "v2"]>>

\* ---- C28 ----
\* C28 (as claimed): an item whose domain is blocked ends with a security
\* error raised out of scrape_url, an item that met the resource limit with a
\* resource error raised out of it, and an item with an invalid URL with no
\* record and nothing raised.
C28_CriticalPropagates ==
    phase = "gather" =>
        \A i \in Tasks :
            pc[i] = "done" =>
                /\ ~is_valid_url(urls[i]) => task_result[i] = NoneValue
                /\ (is_valid_url(urls[i]) /\ ~is_safe_domain(urls[i]))
                      => task_result[i] = Raised("SECURITY_ERROR")
                /\ task_result[i].kind = "exception"
                      => task_result[i].error \in critical_codes

\* ---- C29 ----
\* C29: every permit is either free or held by a task that is still inside
\* scrape_url: a task that has left it, by whatever exit, holds none and is
\* not on the wait queue; once every task of the batch is done all
\* concurrent_limit permits are free and the wait queue is empty.
C29_NoPermitLeak ==
    phase = "gather" =>
        /\ semaphore.value + Cardinality(InFlight) = concurrent_limit
        /\ \A i \in Tasks : pc[i] = "done" => i \notin Range(semaphore.waiters)
        /\ (\A i \in Tasks : pc[i] = "done")
              => /\ semaphore.value = concurrent_limit
                 /\ semaphore.waiters = <<>>

\* a full batch run one at a time is done, its tasks having left scrape_url by
\* a propagated exception, a returned failure record and a success record
C29_Witness ==
    /\ phase = "gather"
    /\ Len(urls) = MaxUrls
    /\ concurrent_limit = 1
    /\ \A i \in Tasks : pc[i] = "done"
    /\ semaphore.value = 1
    /\ \E i, j, k \in Tasks :
          /\ task_result[i].kind = "exception"
          /\ task_result[j].kind = "dict" /\ task_result[j].status = "failed"
          /\ task_result[k].kind = "dict" /\ task_result[k].status = "success"
====
